---- MODULE Spec2Model ----
(***************************************************************************)
(* Model of monitor.py: one invocation probes every configured URL and     *)
(* host, compares the observed code with the per-target state file,        *)
(* rewrites the file and, on a change, routes a webhook and an email.      *)
(*                                                                         *)
(* Strings that the program transforms (target names, state file names and *)
(* state file contents) are sequences of one-character strings, so that    *)
(* str(), strip() and replace() are computed.  Strings that are only       *)
(* compared or passed on (webhook names, messages, header values) are      *)
(* TLA+ strings.  A dict is a function whose DOMAIN is its set of keys.    *)
(***************************************************************************)
EXTENDS Integers, Sequences, FiniteSets, TLC

\* ------------------------------------------------------------------ bounds
MaxRuns == 2
MaxUrls == 1
MaxHosts == 1

\* --------------------------------------------------------- python values
None == "<None>"
Unbound == "<unbound>"

\* Python truthiness of an optional string value (None and "" are false)
truthy(v) == v \notin {None, ""}

\* dict.get(key, default)
get(d, k, default) == IF k \in DOMAIN d THEN d[k] ELSE default

\* An integer code, and the float timeout_sec returned by check_ssh
int(n) == [t |-> "int", v |-> n]
float(n) == [t |-> "float", v |-> n]
NoCode == [t |-> "none", v |-> 0]

Digit == <<"0", "1", "2", "3", "4", "5", "6", "7", "8", "9">>

RECURSIVE decimal(_)
decimal(n) == IF n < 10 THEN <<Digit[n + 1]>>
              ELSE decimal(n \div 10) \o <<Digit[(n % 10) + 1]>>

\* str(code): "200", "-1", and "5.0" for the float 5000 / 1000.0
str(code) ==
    LET digits == IF code.v < 0 THEN <<"-">> \o decimal(-code.v) ELSE decimal(code.v)
    IN  IF code.t = "float" THEN digits \o <<".", "0">> ELSE digits

Whitespace == {" ", "\n", "\t", "\r"}

RECURSIVE lstrip(_)
lstrip(s) == IF s # <<>> /\ Head(s) \in Whitespace THEN lstrip(Tail(s)) ELSE s

RECURSIVE rstrip(_)
rstrip(s) == IF s # <<>> /\ s[Len(s)] \in Whitespace
             THEN rstrip(SubSeq(s, 1, Len(s) - 1)) ELSE s

\* str.strip()
strip(s) == rstrip(lstrip(s))

\* str.replace(old, new) for one-character old and new
replace(s, old, new) == [i \in 1..Len(s) |-> IF s[i] = old THEN new ELSE s[i]]

\* needle in haystack
contains(haystack, needle) ==
    \E i \in 1..(Len(haystack) - Len(needle) + 1) :
        SubSeq(haystack, i, i + Len(needle) - 1) = needle

\* ---------------------------------------------------------- configuration
DEFAULT_TIMEOUT_MS == 5000

\* The configuration documents the model runs against.  Target names are
\* chosen so that sanitising matters ("a:b", "a/b", "a_b").
UrlEntries ==
    { [name |-> <<"a", ":", "b">>, url |-> "http://one",
       checkText |-> TRUE, okText |-> <<"o">>, errorText |-> <<"e">>,
       okWebhook |-> "hooks-ok", errorWebhook |-> "hooks-err"],
      [name |-> <<"a", "/", "b">>, url |-> "http://two",
       checkJson |-> TRUE, checkText |-> TRUE,
       okText |-> <<"o">>, errorText |-> <<"e">>, emailConfigName |-> "mail"] }

HostEntries ==
    { [host |-> <<"h", "1">>],
      [host |-> <<"h", "2">>, name |-> <<"a", "_", "b">>, url |-> "ssh://h2",
       okWebhook |-> "hooks-ok", errorWebhook |-> "hooks-err"],
      [host |-> <<"h", "3">>, name |-> <<"s">>, okWebhook |-> "hooks-ok"] }

JsonHeaders == [Accept |-> "*/*"] @@ ("Content-Type" :> "application/json")
FormHeaders == "Content-Type" :> "application/x-www-form-urlencoded"
TextHeaders == "Content-Type" :> "text/plain"

WebhookLists ==
    { << [name |-> "hooks-ok", url |-> "http://hook/ok", requestMethod |-> "POST",
          headers |-> JsonHeaders, body |-> [text |-> "{service} {code}"]],
         [name |-> "hooks-err", url |-> "http://hook/err", requestMethod |-> "put",
          headers |-> FormHeaders] >>,
      << [name |-> "hooks-ok", url |-> "http://hook/ok", requestMethod |-> "GET",
          headers |-> TextHeaders],
         [name |-> "hooks-err", url |-> "http://hook/err", requestMethod |-> "POST",
          headers |-> [Accept |-> "*/*"]] >>,
      << [name |-> "hooks-err", url |-> "http://hook/err", headers |-> JsonHeaders] >> }

EmailConfigs ==
    { <<>>,
      [sender_email |-> "m@x", password |-> "pw", recipient_email |-> "r@x"],
      [sender_email |-> "m@x", app_password |-> "pw"] }

\* Sequences over S of length at most n
RECURSIVE SeqsUpTo(_, _)
SeqsUpTo(S, n) ==
    IF n = 0 THEN {<<>>}
    ELSE LET shorter == SeqsUpTo(S, n - 1)
         IN  shorter \cup {Append(q, e) : q \in shorter, e \in S}

Documents ==
    [urls : SeqsUpTo(UrlEntries, MaxUrls), hosts : SeqsUpTo(HostEntries, MaxHosts),
     webhooks : WebhookLists, email : EmailConfigs]

\* ------------------------------------------------------ transport outcomes
BodyTexts == {<<>>, <<"o">>, <<"o", "e">>}

HttpOutcomes ==
    [kind : {"response"}, status : {200}, json : BOOLEAN, text : BodyTexts]
    \cup { [kind |-> "response", status |-> 500, json |-> FALSE, text |-> <<>>],
           [kind |-> "timeout", status |-> 0, json |-> FALSE, text |-> <<>>],
           [kind |-> "error", status |-> 0, json |-> FALSE, text |-> <<>>] }

TcpOutcomes == {"connected", "timeout", "error"}
WebhookOutcomes == {"200", "non200", "exception"}
SmtpOutcomes == {"sent", "exception"}

\* ------------------------------------------------------------------ probes
returned(code, message) == [raised |-> FALSE, code |-> code, message |-> message]
raise(exception) == [raised |-> TRUE, code |-> NoCode, message |-> exception]

check_ssh_raising(entry, conn) ==
    IF "host" \notin DOMAIN entry THEN returned(int(503), "Port 22 error: 'host'")
    ELSE CASE conn = "timeout" -> raise("TimeoutError")
           [] conn = "error" -> returned(int(503), "Port 22 error: refused")
           [] OTHER -> returned(int(200), "SSH OK")

check_ssh(entry, conn) ==
    IF "host" \notin DOMAIN entry THEN returned(int(503), "Port 22 error: 'host'")
    ELSE CASE conn = "timeout" -> returned(float(DEFAULT_TIMEOUT_MS \div 1000), "Timeout")
           [] conn = "error" -> returned(int(503), "Port 22 error: refused")
           [] OTHER -> returned(int(200), "SSH OK")

check_api_json_unchecked(resp, checkJson, checkText, okText, errorText) ==
    CASE resp.kind = "timeout" -> returned(int(DEFAULT_TIMEOUT_MS), "Timeout")
      [] resp.kind = "error" -> returned(int(-1), "Error: connection failed")
      [] OTHER ->
           IF resp.status = 200
           THEN IF checkText /\ okText # <<>> /\ ~contains(resp.text, okText)
                THEN returned(int(resp.status), "Required text not found")
                ELSE IF checkText /\ errorText # <<>> /\ contains(resp.text, errorText)
                     THEN returned(int(resp.status), "Error")
                     ELSE returned(int(200), "OK")
           ELSE returned(int(resp.status), "Unexpected status: " \o ToString(resp.status))

check_api(resp, checkJson, checkText, okText, errorText) ==
    CASE resp.kind = "timeout" -> returned(int(DEFAULT_TIMEOUT_MS), "Timeout")
      [] resp.kind = "error" -> returned(int(-1), "Error: connection failed")
      [] OTHER ->
           IF resp.status = 200
           THEN IF checkJson
                THEN IF ~resp.json
                     THEN returned(int(resp.status),
                                   "Invalid JSON response: " \o ToString(resp.status))
                     ELSE returned(int(200), "OK")
                ELSE IF checkText /\ okText # <<>> /\ ~contains(resp.text, okText)
                     THEN returned(int(resp.status), "Required text not found")
                     ELSE IF checkText /\ errorText # <<>> /\ contains(resp.text, errorText)
                          THEN returned(int(resp.status), "Error")
                          ELSE returned(int(200), "OK")
           ELSE returned(int(resp.status), "Unexpected status: " \o ToString(resp.status))

\* ------------------------------------------------------------- state store
sanitize(name) == replace(replace(name, ":", "_"), "/", "_")
state_file(name) == sanitize(name) \o <<".", "t", "x", "t">>

exists(fs, f) == f \in DOMAIN fs

write_lost(fs, f, content) == fs

write(fs, f, content) ==
    [g \in DOMAIN fs \cup {f} |-> IF g = f THEN content ELSE fs[g]]

\* prev_code as read by getCodeChanged: <<>> is None, <<s>> is the string s
read_prev(fs, f) == IF exists(fs, f) THEN <<strip(fs[f])>> ELSE <<>>

hasChanged_always(prev_code, code) == TRUE

hasChanged_not_first(prev_code, code) == prev_code # <<>> /\ prev_code[1] # str(code)

hasChanged(prev_code, code) == prev_code = <<>> \/ prev_code[1] # str(code)

\* ------------------------------------------------------------------ router
RECURSIVE get_webhook_definition(_, _)
get_webhook_definition(defs, name) ==
    IF defs = <<>> THEN <<>>
    ELSE IF Head(defs).name = name THEN <<Head(defs)>>
         ELSE get_webhook_definition(Tail(defs), name)

upper(method) ==
    CASE method \in {"post", "POST"} -> "POST"
      [] method \in {"get", "GET"} -> "GET"
      [] method \in {"put", "PUT"} -> "PUT"
      [] OTHER -> method

send_webhook_message_uncaught(entry, outcome) ==
    IF \/ {"url", "requestMethod", "name", "headers"} \ DOMAIN entry # {}
       \/ "Content-Type" \notin DOMAIN entry.headers
    THEN [raised |-> TRUE, requests |-> <<>>]
    ELSE [raised |-> outcome = "exception",
          requests |-> << [hook |-> entry.name, method |-> "POST",
                           encoding |-> "json", outcome |-> outcome] >>]

\* send_webhook_message: raised KeyError, or at most one HTTP request
send_webhook_message(entry, outcome) ==
    IF \/ {"url", "requestMethod", "name", "headers"} \ DOMAIN entry # {}
       \/ "Content-Type" \notin DOMAIN entry.headers
    THEN [raised |-> TRUE, requests |-> <<>>]
    ELSE LET contentType == entry.headers["Content-Type"]
             method == IF upper(entry.requestMethod) \in {"POST", "GET", "PUT"}
                       THEN upper(entry.requestMethod) ELSE "POST"
             request(encoding) == [hook |-> entry.name, method |-> method,
                                   encoding |-> encoding, outcome |-> outcome]
         IN  CASE contentType = "application/x-www-form-urlencoded" ->
                    [raised |-> FALSE, requests |-> <<request("form")>>]
               [] contentType = "application/json" ->
                    [raised |-> FALSE, requests |-> <<request("json")>>]
               [] OTHER -> [raised |-> FALSE, requests |-> <<>>]

\* send_email_notification: the SMTP deliveries it attempts
send_email_notification(cfg, outcome) ==
    IF DOMAIN cfg = {} THEN <<>>
    ELSE LET password == IF truthy(get(cfg, "password", None))
                         THEN cfg.password ELSE get(cfg, "app_password", None)
         IN  IF /\ truthy(get(cfg, "sender_email", None))
                /\ truthy(password)
                /\ truthy(get(cfg, "recipient_email", None))
             THEN <<outcome>>
             ELSE <<>>

getCodeChanged_create_only(fs, entry, code) ==
    IF "name" \notin DOMAIN entry
    THEN [raised |-> TRUE, files |-> fs, prev_code |-> <<>>, changed |-> FALSE]
    ELSE LET f == state_file(entry.name)
             prev == read_prev(fs, f)
         IN  [raised |-> FALSE,
              files |-> IF exists(fs, f) THEN fs ELSE write(fs, f, str(code)),
              prev_code |-> prev, changed |-> hasChanged(prev, code)]

\* getCodeChanged: KeyError when the entry has no "name"; otherwise reads the
\* previous code, overwrites the state file and classifies the observation
getCodeChanged(fs, entry, code) ==
    IF "name" \notin DOMAIN entry
    THEN [raised |-> TRUE, files |-> fs, prev_code |-> <<>>, changed |-> FALSE]
    ELSE LET f == state_file(entry.name)
             prev == read_prev(fs, f)
         IN  [raised |-> FALSE, files |-> write(fs, f, str(code)),
              prev_code |-> prev, changed |-> hasChanged(prev, code)]

load_config_lenient(doc, loadable) ==
    [exit |-> FALSE, urls |-> doc.urls, hosts |-> doc.hosts,
     webhooks |-> doc.webhooks, email_config |-> doc.email]

\* load_config: the globals it returns, or SystemExit(1)
load_config(doc, loadable) ==
    IF loadable
    THEN [exit |-> FALSE, urls |-> doc.urls, hosts |-> doc.hosts,
          webhooks |-> doc.webhooks, email_config |-> doc.email]
    ELSE [exit |-> TRUE, urls |-> <<>>, hosts |-> <<>>,
          webhooks |-> <<>>, email_config |-> <<>>]

\* webhook_def as main computes it: <<>> is None
lookup(defs, name) == IF truthy(name) THEN get_webhook_definition(defs, name) ELSE <<>>

\* "if webhook_def: send_webhook_message(...) else: print_log(... entry['url'] ...)"
dispatch_or_log(entry, webhook_def, errName, outcome) ==
    IF webhook_def # <<>>
    THEN LET sent == send_webhook_message(webhook_def[1], outcome)
         IN  [exception |-> IF sent.raised THEN "KeyError" ELSE "none",
              errorWebhookName |-> errName,
              dispatched |-> <<webhook_def[1].name>>,
              requests |-> sent.requests]
    ELSE [exception |-> IF "url" \in DOMAIN entry THEN "none" ELSE "KeyError",
          errorWebhookName |-> errName, dispatched |-> <<>>, requests |-> <<>>]

\* Webhook part of one iteration of the "for entry in urls" loop: the
\* dispatch block is nested in the else branch, so nothing follows the
\* okWebhook lookup
url_route(entry, c, defs, errName, outcome) ==
    IF c.v = 200
    THEN [exception |-> "none", errorWebhookName |-> errName,
          dispatched |-> <<>>, requests |-> <<>>]
    ELSE LET name == get(entry, "errorWebhook", None)
         IN  dispatch_or_log(entry, lookup(defs, name), name, outcome)

host_route_swapped(entry, c, defs, errName, outcome) ==
    LET wanted == IF c.v = 200 THEN get(entry, "errorWebhook", None)
                  ELSE get(entry, "okWebhook", None)
        bound == IF c.v = 200 THEN errName ELSE get(entry, "errorWebhook", None)
    IN  dispatch_or_log(entry, lookup(defs, wanted), bound, outcome)

\* Webhook part of one iteration of the "for entry in hosts" loop
host_route(entry, c, defs, errName, outcome) ==
    LET wanted == IF c.v = 200 THEN get(entry, "okWebhook", None)
                  ELSE get(entry, "errorWebhook", None)
        bound == IF c.v = 200 THEN errName ELSE get(entry, "errorWebhook", None)
    IN  dispatch_or_log(entry, lookup(defs, wanted), bound, outcome)

\* ------------------------------------------------------------------- state
VARIABLES
    document,           \* the YAML configuration file
    urls, hosts, webhooks, email_config,   \* globals set by load_config
    files,              \* STATUS_DIR: state file name -> content
    run,                \* invocations started so far
    pc, phase, i,       \* position of main: step, loop, index of the entry
    exitCode, exception,
    transport,          \* outcome of the transport call of the current probe
    code, message,      \* result of the current probe
    prev_code, codeChanged,
    errorWebhookName,   \* local of main, kept across iterations
    dispatched,         \* webhooks handed to send_webhook_message for this entry
    requests,           \* HTTP requests sent for this entry
    mails,              \* SMTP deliveries attempted for this entry
    probed,             \* probes executed in this run
    written,            \* state files written in this run
    invocation,         \* how this run was started: argument given, file loadable
    current,            \* the entry of the current iteration
    steps,              \* steps of the current iteration executed so far
    file_before,        \* state file content found by getCodeChanged: <<>> if none
    collided,           \* the state file had already been written in this run
    observed,           \* state file name -> message of the observation it records
    message_before,     \* observed message found by getCodeChanged: <<>> if none
    call,               \* one call of check_api: its arguments and its result
    race                \* two invocations sharing one state file

vars == <<document, urls, hosts, webhooks, email_config, files, run, pc, phase, i,
          exitCode, exception, transport, code, message, prev_code, codeChanged,
          errorWebhookName, dispatched, requests, mails, probed, written,
          invocation, current, steps, file_before, collided, observed,
          message_before, call, race>>

config == <<document, urls, hosts, webhooks, email_config>>
position == <<pc, phase, i, exitCode, exception>>
observation == <<transport, code, message>>
diffed == <<prev_code, codeChanged, file_before, collided, message_before>>
store == <<files, observed>>
harness == <<call, race>>
channels == <<dispatched, requests, mails>>

NoTransport == [kind |-> "none", status |-> 0, json |-> FALSE, text |-> <<>>]
NoEntry == <<>>
NoCall == [stage |-> "none", resp |-> NoTransport, checkJson |-> FALSE,
           checkText |-> FALSE, okText |-> <<>>, errorText |-> <<>>,
           result |-> returned(NoCode, "")]
NoRace == <<>>

\* No invocation has started
MainIdle ==
    /\ urls = <<>> /\ hosts = <<>> /\ webhooks = <<>> /\ email_config = <<>>
    /\ files = <<>>
    /\ run = 0
    /\ pc = "idle" /\ phase = "none" /\ i = 0
    /\ exitCode = 0 /\ exception = "none"
    /\ transport = NoTransport /\ code = NoCode /\ message = ""
    /\ prev_code = <<>> /\ codeChanged = FALSE
    /\ errorWebhookName = Unbound
    /\ dispatched = <<>> /\ requests = <<>> /\ mails = <<>>
    /\ probed = 0 /\ written = {}
    /\ invocation = [argument |-> FALSE, loadable |-> FALSE]
    /\ current = NoEntry /\ steps = <<>>
    /\ file_before = <<>> /\ collided = FALSE
    /\ observed = <<>> /\ message_before = <<>>

Init ==
    /\ document \in Documents
    /\ MainIdle
    /\ call = NoCall /\ race = NoRace

entry == IF phase = "urls" THEN urls[i] ELSE hosts[i]

NextTarget_skip_hosts ==
    IF phase = "urls" /\ i < Len(urls) THEN [pc |-> "probe", phase |-> "urls", i |-> i + 1]
    ELSE IF phase = "hosts" /\ i < Len(hosts)
         THEN [pc |-> "probe", phase |-> "hosts", i |-> i + 1]
         ELSE [pc |-> "exited", phase |-> "end", i |-> 0]

\* Where main goes after the current entry
NextTarget ==
    IF phase = "urls" /\ i < Len(urls) THEN [pc |-> "probe", phase |-> "urls", i |-> i + 1]
    ELSE IF phase = "urls" /\ hosts # <<>> THEN [pc |-> "probe", phase |-> "hosts", i |-> 1]
    ELSE IF phase = "hosts" /\ i < Len(hosts)
         THEN [pc |-> "probe", phase |-> "hosts", i |-> i + 1]
         ELSE [pc |-> "exited", phase |-> "end", i |-> 0]

Goto(n) ==
    /\ pc' = n.pc /\ phase' = n.phase /\ i' = n.i
    /\ UNCHANGED <<exitCode, exception>>

\* An uncaught exception, or sys.exit(1): the interpreter exits with status 1
Abort(e) ==
    /\ pc' = "exited" /\ exitCode' = 1 /\ exception' = e
    /\ UNCHANGED <<phase, i>>

\* main, lines 313-347: locals and globals reset, argument, load_config
Invoke ==
    /\ pc \in {"idle", "exited"}
    /\ run < MaxRuns
    /\ run' = run + 1
    /\ \E argument \in BOOLEAN, loadable \in BOOLEAN :
         LET loaded == load_config(document, loadable)
             first == IF loaded.urls # <<>> THEN [pc |-> "probe", phase |-> "urls", i |-> 1]
                      ELSE IF loaded.hosts # <<>>
                           THEN [pc |-> "probe", phase |-> "hosts", i |-> 1]
                           ELSE [pc |-> "exited", phase |-> "end", i |-> 0]
         IN  /\ invocation' = [argument |-> argument, loadable |-> loadable]
             /\ IF ~argument \/ loaded.exit
                THEN /\ pc' = "exited" /\ exitCode' = 1 /\ exception' = "SystemExit"
                     /\ phase' = "none" /\ i' = 0
                     /\ urls' = <<>> /\ hosts' = <<>> /\ webhooks' = <<>>
                     /\ email_config' = <<>>
                ELSE /\ pc' = first.pc /\ phase' = first.phase /\ i' = first.i
                     /\ exitCode' = 0 /\ exception' = "none"
                     /\ urls' = loaded.urls /\ hosts' = loaded.hosts
                     /\ webhooks' = loaded.webhooks
                     /\ email_config' = loaded.email_config
    /\ transport' = NoTransport /\ code' = NoCode /\ message' = ""
    /\ prev_code' = <<>> /\ codeChanged' = FALSE
    /\ errorWebhookName' = Unbound
    /\ dispatched' = <<>> /\ requests' = <<>> /\ mails' = <<>>
    /\ probed' = 0 /\ written' = {}
    /\ current' = NoEntry /\ steps' = <<>>
    /\ file_before' = <<>> /\ collided' = FALSE /\ message_before' = <<>>
    /\ UNCHANGED <<document, store, harness>>

\* A probe result enters the iteration; a raised exception ends the run
Observe(outcome, result) ==
    /\ transport' = outcome
    /\ probed' = probed + 1
    /\ current' = entry /\ steps' = <<"probe">>
    /\ prev_code' = <<>> /\ codeChanged' = FALSE
    /\ file_before' = <<>> /\ collided' = FALSE /\ message_before' = <<>>
    /\ dispatched' = <<>> /\ requests' = <<>> /\ mails' = <<>>
    /\ IF result.raised
       THEN /\ Abort(result.message)
            /\ code' = NoCode /\ message' = ""
       ELSE /\ code' = result.code /\ message' = result.message
            /\ pc' = "diff"
            /\ UNCHANGED <<phase, i, exitCode, exception>>
    /\ UNCHANGED <<config, store, run, errorWebhookName, written, invocation,
                   harness>>

\* main, line 349
ProbeUrl ==
    /\ pc = "probe" /\ phase = "urls"
    /\ \E resp \in HttpOutcomes :
         Observe(resp, check_api(resp, get(entry, "checkJson", FALSE),
                                 get(entry, "checkText", FALSE),
                                 get(entry, "textExpected", <<>>),
                                 get(entry, "textForbidden", <<>>)))

\* main, line 385
ProbeHost ==
    /\ pc = "probe" /\ phase = "hosts"
    /\ \E conn \in TcpOutcomes :
         Observe([kind |-> conn, status |-> 0, json |-> FALSE, text |-> <<>>],
                 check_ssh(entry, conn))

\* main, lines 351-354 and 387-390: getCodeChanged, then continue if unchanged
Diff ==
    /\ pc = "diff"
    /\ LET r == getCodeChanged(files, entry, code)
       IN  IF r.raised
           THEN /\ Abort("KeyError")
                /\ UNCHANGED <<store, diffed, written>>
           ELSE /\ files' = r.files
                /\ observed' = write(observed, state_file(entry.name), message)
                /\ message_before' = IF exists(observed, state_file(entry.name))
                                     THEN <<observed[state_file(entry.name)]>> ELSE <<>>
                /\ prev_code' = r.prev_code
                /\ codeChanged' = r.changed
                /\ file_before' = IF exists(files, state_file(entry.name))
                                  THEN <<files[state_file(entry.name)]>> ELSE <<>>
                /\ collided' = (state_file(entry.name) \in written)
                /\ written' = written \cup {state_file(entry.name)}
                /\ IF r.changed
                   THEN pc' = "route" /\ UNCHANGED <<phase, i, exitCode, exception>>
                   ELSE Goto(NextTarget)
    /\ steps' = Append(steps, "diff")
    /\ UNCHANGED <<config, run, observation, errorWebhookName, channels, probed,
                   invocation, current, harness>>

Routed(r) ==
    /\ errorWebhookName' = r.errorWebhookName
    /\ dispatched' = r.dispatched
    /\ requests' = r.requests
    /\ IF r.exception # "none"
       THEN Abort(r.exception)
       ELSE pc' = "email" /\ UNCHANGED <<phase, i, exitCode, exception>>
    /\ steps' = Append(steps, "route")
    /\ UNCHANGED <<config, store, run, observation, diffed, mails, probed, written,
                   invocation, current, harness>>

\* main, lines 355-372
RouteUrl ==
    /\ pc = "route" /\ phase = "urls"
    /\ \E outcome \in WebhookOutcomes :
         Routed(url_route(entry, code, webhooks, errorWebhookName, outcome))

\* main, lines 391-408
RouteHost ==
    /\ pc = "route" /\ phase = "hosts"
    /\ \E outcome \in WebhookOutcomes :
         Routed(host_route(entry, code, webhooks, errorWebhookName, outcome))

\* main, lines 377-380 and 413-416
Email ==
    /\ pc = "email"
    /\ IF DOMAIN email_config = {}
       THEN Goto(NextTarget) /\ UNCHANGED mails
       ELSE IF errorWebhookName = Unbound
            THEN Abort("UnboundLocalError") /\ UNCHANGED mails
            ELSE \E outcome \in SmtpOutcomes :
                   /\ mails' = send_email_notification(email_config, outcome)
                   /\ Goto(NextTarget)
    /\ steps' = Append(steps, "email")
    /\ UNCHANGED <<config, store, run, observation, diffed, errorWebhookName,
                   dispatched, requests, probed, written, invocation, current,
                   harness>>

Next == Invoke \/ ProbeUrl \/ ProbeHost \/ Diff \/ RouteUrl \/ RouteHost \/ Email

Spec == Init /\ [][Next]_vars

\* ------------------------------------------------- check_api on its own
\* okText and errorText values: None or "", and two one-letter texts
CheckTexts == {<<>>, <<"o">>, <<"e">>}

ApiCalls ==
    [stage : {"called"}, resp : HttpOutcomes, checkJson : BOOLEAN,
     checkText : BOOLEAN, okText : CheckTexts, errorText : CheckTexts,
     result : {returned(NoCode, "")}]

SomeDocument == [urls |-> <<>>, hosts |-> <<>>, webhooks |-> <<>>, email |-> <<>>]

InitApi ==
    /\ document = SomeDocument
    /\ MainIdle
    /\ call \in ApiCalls /\ race = NoRace

\* check_api, lines 246-269, applied to the arguments of the call
CheckApiReturns ==
    /\ call.stage = "called"
    /\ call' = [call EXCEPT
                  !.stage = "returned",
                  !.result = check_api(call.resp, call.checkJson, call.checkText,
                                       call.okText, call.errorText)]
    /\ UNCHANGED <<config, store, run, position, observation, diffed,
                   errorWebhookName, channels, probed, written, invocation, current,
                   steps, race>>

NextApi == CheckApiReturns

SpecApi == InitApi /\ [][NextApi]_vars

\* ------------------------------- two invocations on one state directory
\* Both invocations run the same configuration with one host entry; each is
\* at the probe, at the read of getCodeChanged (lines 286-288), at the
\* open(state_file, 'w') that truncates the file, at the f.write, or done.
RaceEntry == [host |-> <<"h", "2">>, name |-> <<"a", "_", "b">>]
RaceFile == state_file(RaceEntry.name)
Invocations == {1, 2}

InitRace ==
    /\ document = SomeDocument
    /\ MainIdle
    /\ call = NoCall
    /\ \E fs \in {<<>>} \cup {write(<<>>, RaceFile, str(c)) : c \in {int(200), int(503)}} :
         race = [fs |-> fs, overlapped |-> FALSE, readers |-> <<>>,
                 p |-> [n \in Invocations |->
                          [pc |-> "probe", code |-> NoCode, prev_code |-> <<>>,
                           changed |-> FALSE]]]

RaceStep(n, proc, fs, overlapped, readers) ==
    /\ race' = [fs |-> fs, overlapped |-> overlapped, readers |-> readers,
                p |-> [race.p EXCEPT ![n] = proc]]
    /\ UNCHANGED <<config, store, run, position, observation, diffed,
                   errorWebhookName, channels, probed, written, invocation, current,
                   steps, call>>

\* main, line 385
RaceProbe(n) ==
    /\ race.p[n].pc = "probe"
    /\ \E conn \in TcpOutcomes :
         RaceStep(n, [race.p[n] EXCEPT !.pc = "read",
                                       !.code = check_ssh(RaceEntry, conn).code],
                  race.fs, race.overlapped, race.readers)

\* getCodeChanged, lines 285-288
RaceRead(n) ==
    /\ race.p[n].pc = "read"
    /\ RaceStep(n, [race.p[n] EXCEPT !.pc = "open",
                                     !.prev_code = read_prev(race.fs, RaceFile)],
                race.fs,
                race.overlapped \/ \E m \in Invocations \ {n} :
                                      race.p[m].pc \in {"open", "write"},
                Append(race.readers, n))

\* getCodeChanged, lines 289 and 292: open(state_file, 'w')
RaceOpen(n) ==
    /\ race.p[n].pc = "open"
    /\ RaceStep(n, [race.p[n] EXCEPT !.pc = "write"],
                write(race.fs, RaceFile, <<>>), race.overlapped, race.readers)

\* getCodeChanged, lines 290 and 293, and the comparison of lines 295-299
RaceWrite(n) ==
    /\ race.p[n].pc = "write"
    /\ RaceStep(n, [race.p[n] EXCEPT
                      !.pc = "done",
                      !.changed = hasChanged(race.p[n].prev_code, race.p[n].code)],
                write(race.fs, RaceFile, str(race.p[n].code)),
                race.overlapped, race.readers)

NextRace ==
    \E n \in Invocations : RaceProbe(n) \/ RaceRead(n) \/ RaceOpen(n) \/ RaceWrite(n)

SpecRace == InitRace /\ [][NextRace]_vars

\* ------------------------------------------------------------------ claims
Range(q) == {q[k] : k \in 1..Len(q)}

\* getCodeChanged has returned for the current entry
Classified == Len(steps) >= 2 /\ (Len(steps) = 2 => exception # "KeyError")

\* the webhook part of the current iteration has been executed
RouteDone == Len(steps) >= 3

resolves(name) == truthy(name) /\ get_webhook_definition(webhooks, name) # <<>>

EmailComplete ==
    /\ {"sender_email", "recipient_email"} \subseteq DOMAIN email_config
    /\ {"password", "app_password"} \cap DOMAIN email_config # {}

NoChannel == dispatched = <<>> /\ requests = <<>> /\ mails = <<>>

\* C1: an entry whose observed code has the string form its state file
\* already held (the code persisted by the previous run) goes through no
\* routing in this run: no webhook is dispatched or requested, no email sent.
C1_UnchangedIsSilent ==
    (Classified /\ file_before # <<>> /\ file_before[1] = str(code))
        => (steps = <<"probe", "diff">> /\ NoChannel)

C1_Witness ==
    /\ run = 2 /\ Classified /\ ~collided
    /\ file_before # <<>> /\ file_before[1] = str(code)
    /\ EmailComplete
    /\ resolves(get(current, "okWebhook", None))

\* C2: getCodeChanged classifies the observation as changed exactly when no
\* state file existed or the file held a string other than str(code); a
\* changed observation (a first one in particular) enters routing.
C2_Classification ==
    Classified =>
        /\ codeChanged <=> (file_before = <<>> \/ file_before[1] # str(code))
        /\ codeChanged => (pc = "route" \/ RouteDone)

C2_Witness ==
    /\ Classified /\ file_before = <<>> /\ code.v = 200
    /\ codeChanged /\ pc = "route"

\* C3: once getCodeChanged has returned for an entry, the entry's state file
\* holds str(code) of this run's observation, changed or not.
C3_StateFileHoldsCode ==
    Classified =>
        /\ exists(files, state_file(current.name))
        /\ files[state_file(current.name)] = str(code)

C3_Witness ==
    /\ run = 2 /\ Classified /\ "host" \in DOMAIN current
    /\ file_before # <<>> /\ file_before[1] # str(code)
    /\ code.t = "float"

\* C4: a changed observation with code 200 whose okWebhook resolves has that
\* webhook dispatched exactly once.
C4_OkWebhookDispatched ==
    (RouteDone /\ codeChanged /\ code.v = 200
        /\ resolves(get(current, "okWebhook", None)))
        => dispatched = <<current.okWebhook>>

\* C5: a changed observation with code other than 200 has the errorWebhook
\* dispatched once if it resolves and the okWebhook not at all; one with
\* code 200 never has the errorWebhook dispatched.
C5_ErrorRouting ==
    RouteDone =>
        LET okName == get(current, "okWebhook", None)
            errName == get(current, "errorWebhook", None)
        IN  IF code.v # 200
            THEN /\ dispatched = IF resolves(errName) THEN <<errName>> ELSE <<>>
                 /\ okName \notin Range(dispatched)
                 /\ Len(requests) <= 1
                 /\ \A r \in Range(requests) : r.hook = errName
            ELSE /\ errName \notin Range(dispatched)
                 /\ \A r \in Range(requests) : r.hook # errName

C5_Witness ==
    /\ RouteDone /\ codeChanged /\ code.v # 200
    /\ truthy(get(current, "okWebhook", None))
    /\ dispatched = <<"hooks-err">>
    /\ Len(requests) = 1 /\ requests[1].hook = "hooks-err"

\* C6: with a complete email configuration, a changed entry whose iteration
\* reached the email section has an email sent.
C6_EmailOnEveryChange ==
    (EmailComplete /\ codeChanged /\ "email" \in Range(steps)) => Len(mails) = 1

\* C7: a run whose configuration loaded, and which did not end inside
\* getCodeChanged, has probed every configured entry and ends with exit code
\* 0, whatever happened while routing and dispatching.
C7_RunCompletes ==
    (pc = "exited" /\ invocation.argument /\ invocation.loadable
        /\ ~(Len(steps) = 2 /\ exception = "KeyError"))
        => (exitCode = 0 /\ probed = Len(urls) + Len(hosts))

\* C8: whenever a channel has been invoked for an entry, the entry's state
\* file was written before and holds str(code); a failed webhook request
\* (non-200 response or exception) lets main go on to the email section, and
\* a failed SMTP delivery lets main go on to the next entry.
C8_StateBeforeDispatch ==
    /\ ~NoChannel =>
          /\ Len(steps) >= 3 /\ steps[2] = "diff"
          /\ exists(files, state_file(current.name))
          /\ files[state_file(current.name)] = str(code)
    /\ (requests # <<>> /\ requests[1].outcome \in {"non200", "exception"}) =>
          /\ pc = "email" \/ "email" \in Range(steps)
          /\ Len(steps) = 3 => exception = "none"
    /\ (mails # <<>> /\ mails[1] = "exception") =>
          /\ exception = "none"
          /\ pc = "exited" => exitCode = 0

C8_Witness ==
    /\ requests # <<>> /\ requests[1].outcome = "exception"
    /\ mails = <<"exception">>
    /\ pc = "probe" /\ phase = "hosts"

\* C9: a run started without the argument, or with a configuration file that
\* cannot be loaded, has exited with status 1 without probing, writing a
\* state file or invoking a channel.
C9_ConfigFailureExits ==
    (run >= 1 /\ (~invocation.argument \/ ~invocation.loadable))
        => /\ pc = "exited" /\ exitCode = 1
           /\ probed = 0 /\ written = {} /\ steps = <<>>
           /\ NoChannel

C9_Witness ==
    /\ run = 2 /\ invocation.argument /\ ~invocation.loadable
    /\ files # <<>> /\ exitCode = 1 /\ probed = 0

\* C10: every probe returns a code and a message whatever the transport did:
\* no probe ends the run, a timeout gives the message "Timeout", any other
\* transport error gives a code other than 200 and a message other than OK.
C10_ProbeAlwaysReturns ==
    steps # <<>> =>
        /\ code # NoCode /\ message # ""
        /\ ~(pc = "exited" /\ steps = <<"probe">>)
        /\ transport.kind = "timeout" => message = "Timeout"
        /\ transport.kind = "error" => (code.v # 200 /\ message \notin {"OK", "SSH OK"})

C10_Witness ==
    /\ steps # <<>> /\ "host" \in DOMAIN current
    /\ transport.kind = "timeout" /\ message = "Timeout"
    /\ code = float(5)

Ok200(resp) == resp.kind = "response" /\ resp.status = 200

\* C11: check_api with checkJson on a 200 response whose body is not JSON
\* returns, whatever checkText, okText and errorText are, a result other than
\* (200, "OK") whose message is "Invalid JSON response: 200".
C11_InvalidJsonReported ==
    (call.stage = "returned" /\ call.checkJson /\ Ok200(call.resp) /\ ~call.resp.json)
        => /\ ~call.result.raised
           /\ call.result # returned(int(200), "OK")
           /\ call.result.message = "Invalid JSON response: " \o ToString(200)

C11_Witness ==
    /\ call.stage = "returned" /\ call.checkJson /\ Ok200(call.resp)
    /\ ~call.resp.json
    /\ call.checkText /\ call.okText = <<"o">> /\ call.resp.text = <<"o">>
    /\ call.result.message = "Invalid JSON response: 200"

\* C12: on a 200 response with checkText (and a body that passes the JSON
\* check when checkJson is set) the message is "Required text not found" when
\* okText is non-empty and absent, else "Error" when errorText is non-empty
\* and present, else the result is (200, "OK").
C12_TextRules ==
    (call.stage = "returned" /\ Ok200(call.resp) /\ call.checkText
        /\ (call.checkJson => call.resp.json))
        => call.result.message =
              IF call.okText # <<>> /\ ~contains(call.resp.text, call.okText)
              THEN "Required text not found"
              ELSE IF call.errorText # <<>> /\ contains(call.resp.text, call.errorText)
                   THEN "Error"
                   ELSE "OK"

\* C13: a URL entry with checkText (and no checkJson) whose 200 body lacks
\* its configured okText is observed with "Required text not found", and
\* otherwise one whose body holds its configured errorText with "Error".
C13_ConfiguredTextsChecked ==
    (steps # <<>> /\ "host" \notin DOMAIN current /\ Ok200(transport)
        /\ get(current, "checkText", FALSE) /\ ~get(current, "checkJson", FALSE))
        => LET okText == get(current, "okText", <<>>)
               errorText == get(current, "errorText", <<>>)
           IN  /\ (okText # <<>> /\ ~contains(transport.text, okText))
                     => message = "Required text not found"
               /\ (contains(transport.text, okText) /\ errorText # <<>>
                     /\ contains(transport.text, errorText))
                     => message = "Error"

\* the webhook name main looks up for the current observation
wantedWebhook ==
    IF code.v = 200 THEN get(current, "okWebhook", None)
    ELSE get(current, "errorWebhook", None)

\* C14: when the webhook a changed entry names is not defined, or it names
\* none, nothing is dispatched and the webhook part ends without an
\* exception, so that main goes on.
C14_UnresolvedWebhookLogged ==
    (RouteDone /\ codeChanged /\ ~resolves(wantedWebhook))
        => /\ dispatched = <<>> /\ requests = <<>>
           /\ Len(steps) = 3 => exception = "none"

\* Content-Type of the webhook definition handed to send_webhook_message
dispatchedContentType ==
    LET def == get_webhook_definition(webhooks, dispatched[1])[1]
    IN  IF "headers" \in DOMAIN def THEN get(def.headers, "Content-Type", None)
        ELSE None

\* C15: send_webhook_message sends a request only for the Content-Types
\* application/json (JSON body) and application/x-www-form-urlencoded (form
\* body); for any other value, an absent header included, it sends nothing
\* and returns without an exception.
C15_OtherContentTypeSkipped ==
    (RouteDone /\ dispatched # <<>>)
        => /\ requests # <<>> =>
                \/ dispatchedContentType = "application/json"
                     /\ requests[1].encoding = "json"
                \/ dispatchedContentType = "application/x-www-form-urlencoded"
                     /\ requests[1].encoding = "form"
           /\ dispatchedContentType \notin
                {"application/json", "application/x-www-form-urlencoded"}
                => /\ requests = <<>>
                   /\ Len(steps) = 3 => exception = "none"

\* C16: for a host entry that declares only "host", getCodeChanged returns
\* and the observation is recorded in the state file named after the
\* sanitised host.
C16_HostKeyedState ==
    (DOMAIN current = {"host"} /\ Len(steps) >= 2)
        => /\ Classified
           /\ exists(files, state_file(current.host))
           /\ files[state_file(current.host)] = str(code)

\* the configured entries in the order main handles them
targets == urls \o hosts

\* number, in that order, of the entry main is at
index == IF phase = "urls" THEN i ELSE Len(urls) + i

Pipeline == <<"probe", "diff", "route", "email">>

RaceDone == \A n \in Invocations : race.p[n].pc = "done"

\* both invocations notify the same code as a change
DoubleNotify ==
    /\ RaceDone
    /\ race.p[1].code = race.p[2].code
    /\ race.p[1].changed /\ race.p[2].changed

\* C18: two invocations that both report the same code as a change have
\* overlapped (one read the state file while the other was between its read
\* and the end of its write); when they do not overlap, the later reader
\* finds exactly the code the earlier one wrote.  The overlapping case is
\* reachable (witness).
C18_LostUpdateOnlyWhenOverlapping ==
    RaceDone =>
        /\ DoubleNotify => race.overlapped
        /\ ~race.overlapped =>
              race.p[race.readers[2]].prev_code = <<str(race.p[race.readers[1]].code)>>

C18_Witness ==
    /\ DoubleNotify /\ race.overlapped
    /\ race.p[1].prev_code = race.p[2].prev_code
    /\ race.p[1].prev_code = <<str(int(200))>>
    /\ race.p[1].code = int(503)

\* C19: two configured entries with different names never use the same state
\* file, so the entry being classified is never compared against a code that
\* an entry of another name wrote earlier in the run.
C19_NoSharedStateFile ==
    Classified =>
        \A k \in 1..(probed - 1) :
            ("name" \in DOMAIN targets[k] /\ targets[k].name # current.name)
                => /\ state_file(targets[k].name) # state_file(current.name)
                   /\ ~collided

\* the entry was last recorded with status 200 under the message m
RecordedAs200(m) ==
    /\ ~collided
    /\ file_before = <<str(int(200))>>
    /\ message_before = <<m>>

\* C20: a URL entry recorded as (200, "OK") that now answers 200 with a
\* content failure is classified as changed, and so is an entry recorded
\* with a content failure under status 200 that now yields (200, "OK").
C20_ContentFailureIsTransition ==
    (Classified /\ "url" \in DOMAIN current /\ code = int(200))
        => /\ (message # "OK" /\ RecordedAs200("OK")) => codeChanged
           /\ \A m \in Range(message_before) :
                 (message = "OK" /\ m # "OK" /\ RecordedAs200(m)) => codeChanged

====
